---------------------------- MODULE Spec2Model ----------------------------
(***************************************************************************)
(* A model of bibfix (src/bibfix.py): the per-entry cleaner clean_entry,   *)
(* the string functions it calls (truncate_authors, apply_title_no_cap,    *)
(* normalize_string, the month table), and the driver loop of main.        *)
(*                                                                         *)
(* Text is modelled as a sequence of characters, each character a          *)
(* one-element string; field names, entry types, citation keys and the     *)
(* formatted warnings are strings.                                         *)
(***************************************************************************)
EXTENDS Integers, Sequences, FiniteSets, TLC

VARIABLES
    pc,               \* position of the running code
    call,             \* the arguments of the function being applied
    ret,              \* what the function returned
    args,             \* main: the parsed command line
    entries,          \* main: db.entries
    abbreviations,    \* main: the abbreviation table, or None
    title_exceptions, \* main: the title exception set
    used_keys,        \* main: the citation keys, or None
    idx,              \* main: the position of the for loop in db.entries
    cleaned_entries,  \* main: the output list
    all_warnings      \* main: the warnings collected

vars == <<pc, call, ret, args, entries, abbreviations, title_exceptions,
          used_keys, idx, cleaned_entries, all_warnings>>

\* Python's None, as a function so that it compares with a dictionary
None == [none |-> TRUE]

\* a set of keys as a value that compares with None
KeySet(keys) == [keys |-> keys]

\* stands for a key that an entry does not have
Absent == "<absent>"

(***************************************************************************)
(* Characters.  Python's str methods follow Unicode: besides the ASCII     *)
(* letters the model has U+0149 (a lowercase letter whose uppercase is the *)
(* two characters U+02BC U+004E) and U+02BC (a caseless letter).           *)
(***************************************************************************)
Lowers == <<"a", "b", "c", "d", "e", "f", "g", "h", "i", "j", "k", "l", "m",
            "n", "o", "p", "q", "r", "s", "t", "u", "v", "w", "x", "y", "z">>
Uppers == <<"A", "B", "C", "D", "E", "F", "G", "H", "I", "J", "K", "L", "M",
            "N", "O", "P", "Q", "R", "S", "T", "U", "V", "W", "X", "Y", "Z">>

Range(f) == {f[i] : i \in DOMAIN f}

LowerSet == Range(Lowers)
UpperSet == Range(Uppers)
DigitSet == {"0", "1", "2", "3", "4", "5", "6", "7", "8", "9"}
Whitespace == {" ", "\t"}
U0149 == "u0149"
U02BC == "u02BC"

UpperOf == [c \in LowerSet |-> Uppers[CHOOSE i \in DOMAIN Lowers : Lowers[i] = c]]
LowerOf == [c \in UpperSet |-> Lowers[CHOOSE i \in DOMAIN Uppers : Uppers[i] = c]]

\* str.isalpha, str.isupper, str.isdigit, str.isspace of one character
char_isalpha(c) == c \in LowerSet \cup UpperSet \cup {U0149, U02BC}
char_isupper(c) == c \in UpperSet
char_islower(c) == c \in LowerSet \cup {U0149}
char_isdigit(c) == c \in DigitSet
char_isspace(c) == c \in Whitespace

\* str.upper and str.lower of one character: a string, since the uppercase
\* of one character may be two
char_upper(c) ==
    IF c \in LowerSet THEN <<UpperOf[c]>>
    ELSE IF c = U0149 THEN <<U02BC, "N">>
    ELSE <<c>>

char_lower(c) == IF c \in UpperSet THEN <<LowerOf[c]>> ELSE <<c>>

RECURSIVE str_lower(_)
str_lower(s) == IF s = <<>> THEN <<>> ELSE char_lower(Head(s)) \o str_lower(Tail(s))

\* str.isupper: some cased character, and no lowercase one
str_isupper(s) ==
    /\ \E i \in DOMAIN s : char_isupper(s[i])
    /\ \A i \in DOMAIN s : ~char_islower(s[i])

\* str.isspace: non-empty and all whitespace
str_isspace(s) == s # <<>> /\ \A i \in DOMAIN s : char_isspace(s[i])

\* s[i:] and s[:i] with Python's 0-based index i
str_from(s, i) == SubSeq(s, i + 1, Len(s))
str_upto(s, i) == SubSeq(s, 1, i)

RECURSIVE lstrip(_)
lstrip(s) == IF s # <<>> /\ char_isspace(Head(s)) THEN lstrip(Tail(s)) ELSE s

RECURSIVE rstrip(_)
rstrip(s) ==
    IF s # <<>> /\ char_isspace(s[Len(s)]) THEN rstrip(SubSeq(s, 1, Len(s) - 1)) ELSE s

\* str.strip()
strip(s) == rstrip(lstrip(s))

str_startswith(s, p) == Len(p) <= Len(s) /\ SubSeq(s, 1, Len(p)) = p
str_endswith(s, p) == Len(p) <= Len(s) /\ SubSeq(s, Len(s) - Len(p) + 1, Len(s)) = p

\* p in s
str_contains(s, p) ==
    \E i \in 0..(Len(s) - Len(p)) : SubSeq(s, i + 1, i + Len(p)) = p

\* s.split(sep): the pieces between the leftmost non-overlapping occurrences
RECURSIVE str_split_from(_, _, _)
str_split_from(s, sep, cur) ==
    IF s = <<>> THEN <<cur>>
    ELSE IF str_startswith(s, sep) THEN <<cur>> \o str_split_from(str_from(s, Len(sep)), sep, <<>>)
    ELSE str_split_from(Tail(s), sep, Append(cur, Head(s)))

str_split(s, sep) == str_split_from(s, sep, <<>>)

\* sep.join(parts)
RECURSIVE str_join(_, _)
str_join(sep, parts) ==
    IF parts = <<>> THEN <<>>
    ELSE IF Len(parts) = 1 THEN parts[1]
    ELSE parts[1] \o sep \o str_join(sep, Tail(parts))

\* ''.join(parts)
RECURSIVE concat(_)
concat(parts) == IF parts = <<>> THEN <<>> ELSE Head(parts) \o concat(Tail(parts))

\* re.sub(r'[^a-z0-9]+', '', s)
RECURSIVE sub_non_lower_alnum(_)
sub_non_lower_alnum(s) ==
    IF s = <<>> THEN <<>>
    ELSE IF Head(s) \in LowerSet \cup DigitSet THEN <<Head(s)>> \o sub_non_lower_alnum(Tail(s))
    ELSE sub_non_lower_alnum(Tail(s))

\* re.sub(r'[^a-zA-Z0-9 ]', '', s)
RECURSIVE sub_non_alnum_space(_)
sub_non_alnum_space(s) ==
    IF s = <<>> THEN <<>>
    ELSE IF Head(s) \in LowerSet \cup UpperSet \cup DigitSet \cup {" "}
         THEN <<Head(s)>> \o sub_non_alnum_space(Tail(s))
    ELSE sub_non_alnum_space(Tail(s))

\* the first n elements of a list: parts[:n] for n >= 0
take(parts, n) == SubSeq(parts, 1, IF n < Len(parts) THEN n ELSE Len(parts))

\* [f(x) for x in parts] with f = strip
strip_each(parts) == [i \in DOMAIN parts |-> strip(parts[i])]

(***************************************************************************)
(* truncate_authors                                                        *)
(***************************************************************************)
DEFAULT_MAX_AUTHORS == -1

SepAnd == <<" ", "a", "n", "d", " ">>
AndOthers == <<" ", "a", "n", "d", " ", "o", "t", "h", "e", "r", "s">>

\* variant: the untruncated list is rejoined from its trimmed names
truncate_authors_rejoin(authors_string, max_authors) ==
    IF authors_string = <<>> \/ max_authors < 0 THEN authors_string
    ELSE LET authors == strip_each(str_split(authors_string, SepAnd))
         IN  IF Len(authors) > max_authors
             THEN str_join(SepAnd, take(authors, max_authors)) \o AndOthers
             ELSE str_join(SepAnd, authors)

truncate_authors(authors_string, max_authors) ==
    IF authors_string = <<>> \/ max_authors < 0 THEN authors_string
    ELSE LET authors == strip_each(str_split(authors_string, SepAnd))
         IN  IF Len(authors) > max_authors
             THEN str_join(SepAnd, take(authors, max_authors)) \o AndOthers
             ELSE authors_string

(***************************************************************************)
(* The driver's variables while a single function is applied.              *)
(***************************************************************************)
MainIdle ==
    /\ args = None
    /\ entries = <<>>
    /\ abbreviations = None
    /\ title_exceptions = {}
    /\ used_keys = None
    /\ idx = 0
    /\ cleaned_entries = <<>>
    /\ all_warnings = <<>>

MainUnchanged ==
    UNCHANGED <<args, entries, abbreviations, title_exceptions, used_keys, idx,
                cleaned_entries, all_warnings>>

\* the strings made of at most n pieces of a pool
PiecesUpTo(Pool, n) ==
    {concat(f) : f \in UNION {[1..k -> Pool] : k \in 0..n}}

(***************************************************************************)
(* truncate_authors applied to author strings built from names, the        *)
(* separator and blanks.                                                   *)
(***************************************************************************)
MaxAuthorPieces == 5
MaxAuthorLimit == 3

AuthorPieces == {<<"A">>, <<"B">>, SepAnd, <<" ">>}

InitAuthors ==
    /\ pc = "call"
    /\ call \in [fn : {"truncate_authors"},
                 authors_string : PiecesUpTo(AuthorPieces, MaxAuthorPieces),
                 max_authors : DEFAULT_MAX_AUTHORS..MaxAuthorLimit]
    /\ ret = <<>>
    /\ MainIdle

CallTruncateAuthors ==
    /\ pc = "call"
    /\ call.fn = "truncate_authors"
    /\ ret' = truncate_authors(call.authors_string, call.max_authors)
    /\ pc' = "return"
    /\ UNCHANGED call
    /\ MainUnchanged

SpecAuthors == InitAuthors /\ [][CallTruncateAuthors]_vars

\* C4: truncate_authors returns its input unchanged when the input is empty,
\* the limit is negative, or the number of names split on " and " is at most
\* the limit; otherwise it returns the first `limit` trimmed names joined by
\* " and ", followed by " and others".
C4_TruncateAuthors ==
    (pc = "return" /\ call.fn = "truncate_authors") =>
        LET s == call.authors_string
            limit == call.max_authors
            names == str_split(s, SepAnd)
        IN  IF s = <<>> \/ limit < 0 \/ Len(names) <= limit
            THEN ret = s
            ELSE /\ str_endswith(ret, AndOthers)
                 /\ LET kept == str_upto(ret, Len(ret) - Len(AndOthers))
                    IN  kept = str_join(SepAnd, [i \in 1..limit |-> strip(names[i])])

\* a truncation happened, and names that needed trimming were kept
C4_Witness ==
    /\ pc = "return"
    /\ call.fn = "truncate_authors"
    /\ call.max_authors = 2
    /\ Len(str_split(call.authors_string, SepAnd)) = 3
    /\ call.authors_string # str_join(SepAnd, strip_each(str_split(call.authors_string, SepAnd)))
    /\ str_endswith(ret, AndOthers)


(***************************************************************************)
(* apply_title_no_cap and the functions it calls                           *)
(***************************************************************************)

\* lowercase_alpha (the later definition, which is the one in effect)
RECURSIVE lowercase_alpha(_)
lowercase_alpha(word) ==
    IF word = <<>> THEN <<>>
    ELSE (IF char_isalpha(Head(word)) THEN char_lower(Head(word)) ELSE <<Head(word)>>)
         \o lowercase_alpha(Tail(word))

\* capitalize_alpha (the later definition, which is the one in effect)
capitalize_alpha(word) ==
    IF \E i \in DOMAIN word : char_isalpha(word[i])
    THEN LET i == CHOOSE i \in DOMAIN word :
                      /\ char_isalpha(word[i])
                      /\ \A j \in 1..(i - 1) : ~char_isalpha(word[j])
         IN  str_upto(word, i - 1) \o char_upper(word[i]) \o str_lower(str_from(word, i))
    ELSE word

\* re.split(r'(\s+)', title): the runs of non-blank and blank characters in
\* turn, starting and ending with a (possibly empty) non-blank run
RECURSIVE re_split_ws_from(_, _, _)
re_split_ws_from(s, cur, in_ws) ==
    IF s = <<>> THEN (IF in_ws THEN <<cur, <<>>>> ELSE <<cur>>)
    ELSE IF char_isspace(Head(s)) = in_ws
         THEN re_split_ws_from(Tail(s), Append(cur, Head(s)), in_ws)
         ELSE <<cur>> \o re_split_ws_from(Tail(s), <<Head(s)>>, ~in_ws)

re_split_ws(title) == re_split_ws_from(title, <<>>, FALSE)

\* sanitized = re.sub(r'[^a-z0-9]+', '', chunk.lower())
sanitize(chunk) == sub_non_lower_alnum(str_lower(chunk))

\* uppercase_count = sum(1 for c in chunk if c.isupper())
uppercase_count(chunk) == Cardinality({i \in DOMAIN chunk : char_isupper(chunk[i])})

\* has_digits = any(c.isdigit() for c in chunk)
has_digits(chunk) == \E i \in DOMAIN chunk : char_isdigit(chunk[i])

\* variant: uppercase letters do not make a chunk preserved
is_preserved_only_listed(chunk, exceptions) ==
    \/ exceptions # {} /\ (sanitize(chunk) \in exceptions \/ str_lower(chunk) \in exceptions)
    \/ has_digits(chunk)

\* the value of `preserve` for a word chunk
is_preserved(chunk, exceptions) ==
    \/ exceptions # {} /\ (sanitize(chunk) \in exceptions \/ str_lower(chunk) \in exceptions)
    \/ uppercase_count(chunk) >= 2 \/ str_isupper(chunk) \/ has_digits(chunk)

SentenceEnd == {".", ":", ";", "!", "?"}

\* re.search(r'[.:;!?]\s*$', chunk)
ends_sentence(chunk) ==
    LET t == rstrip(chunk) IN t # <<>> /\ t[Len(t)] \in SentenceEnd

\* variant: a word ending in sentence punctuation resets capitalize_next
capitalize_after_word_by_ending(chunk, capitalize_next) == ends_sentence(chunk)

\* capitalize_next after a word chunk
capitalize_after_word(chunk, capitalize_next) == FALSE

\* capitalize_next after a chunk with no letter or digit
capitalize_after_punct(chunk, capitalize_next) ==
    IF ends_sentence(chunk) THEN TRUE ELSE capitalize_next

\* one pass of the for loop over a chunk: what is appended to `processed`
\* (nothing for an empty chunk), the branch taken, and capitalize_next after
chunk_step(chunk, exceptions, capitalize_next) ==
    IF chunk = <<>> THEN
        [out |-> <<>>, branch |-> "empty", next |-> capitalize_next]
    ELSE IF str_isspace(chunk) THEN
        [out |-> chunk, branch |-> "space", next |-> capitalize_next]
    ELSE IF sanitize(chunk) # <<>> THEN
        IF is_preserved(chunk, exceptions) THEN
            [out |-> chunk, branch |-> "preserve",
             next |-> capitalize_after_word(chunk, capitalize_next)]
        ELSE IF capitalize_next THEN
            [out |-> capitalize_alpha(chunk), branch |-> "capitalize",
             next |-> capitalize_after_word(chunk, capitalize_next)]
        ELSE
            [out |-> lowercase_alpha(chunk), branch |-> "lowercase",
             next |-> capitalize_after_word(chunk, capitalize_next)]
    ELSE
        [out |-> chunk, branch |-> "punct",
         next |-> capitalize_after_punct(chunk, capitalize_next)]

\* the for loop: the step of every chunk, in order
RECURSIVE title_steps(_, _, _)
title_steps(chunks, exceptions, capitalize_next) ==
    IF chunks = <<>> THEN <<>>
    ELSE LET r == chunk_step(Head(chunks), exceptions, capitalize_next)
         IN  <<r>> \o title_steps(Tail(chunks), exceptions, r.next)

apply_title_no_cap(title, exceptions) ==
    IF title = <<>> THEN title
    ELSE LET steps == title_steps(re_split_ws(title), exceptions, TRUE)
         IN  concat([i \in DOMAIN steps |-> steps[i].out])

(***************************************************************************)
(* apply_title_no_cap applied to a title, and again to its own result.     *)
(***************************************************************************)
MaxTitleLen == 5

TitleChars == {"a", "B", "1", ":", "-", " ", U0149}
TitleExceptionSets == {{}, {<<"a", "b">>}}

StringsUpTo(Chars, n) == UNION {[1..k -> Chars] : k \in 0..n}

InitTitle ==
    /\ pc = "call"
    /\ call \in [fn : {"apply_title_no_cap"},
                 title : StringsUpTo(TitleChars, MaxTitleLen),
                 exceptions : TitleExceptionSets]
    /\ ret = <<>>
    /\ MainIdle

CallApplyTitle ==
    /\ pc = "call"
    /\ call.fn = "apply_title_no_cap"
    /\ ret' = apply_title_no_cap(call.title, call.exceptions)
    /\ pc' = "return"
    /\ UNCHANGED call
    /\ MainUnchanged

\* the result is passed to the function a second time
CallApplyTitleAgain ==
    /\ pc = "return"
    /\ call.fn = "apply_title_no_cap"
    /\ call' = [call EXCEPT !.title = ret]
    /\ ret' = apply_title_no_cap(ret, call.exceptions)
    /\ pc' = "return again"
    /\ MainUnchanged

NextTitle == CallApplyTitle \/ CallApplyTitleAgain

SpecTitle == InitTitle /\ [][NextTitle]_vars

\* C6: apply_title_no_cap is idempotent: applied to its own result, with the
\* same exception set, it returns that result unchanged.
C6_Idempotent ==
    (pc = "return again" /\ call.fn = "apply_title_no_cap") => ret = call.title

\* a chunk with a letter or a digit, and a chunk of punctuation only
C8_IsWord(chunk) == \E i \in DOMAIN chunk : chunk[i] \in LowerSet \cup UpperSet \cup DigitSet
C8_IsPunct(chunk) == chunk # <<>> /\ ~str_isspace(chunk) /\ ~C8_IsWord(chunk)

\* chunk i is at the start of a sentence: no word chunk precedes it, or a
\* punctuation chunk ending in one of . : ; ! ? follows the previous word chunk
C8_StartsSentence(chunks, i) ==
    \/ \A j \in 1..(i - 1) : ~C8_IsWord(chunks[j])
    \/ \E j \in 1..(i - 1) :
          /\ C8_IsPunct(chunks[j])
          /\ chunks[j][Len(chunks[j])] \in SentenceEnd
          /\ \A k \in (j + 1)..(i - 1) : ~C8_IsWord(chunks[k])

\* the first letter uppercased and the other letters lowercased
C8_Capitalized(chunk) ==
    concat([k \in DOMAIN chunk |->
        IF char_isalpha(chunk[k]) /\ \A j \in 1..(k - 1) : ~char_isalpha(chunk[j])
        THEN char_upper(chunk[k])
        ELSE IF char_isalpha(chunk[k]) THEN char_lower(chunk[k]) ELSE <<chunk[k]>>])

\* every letter lowercased
C8_Lowercased(chunk) ==
    concat([k \in DOMAIN chunk |->
        IF char_isalpha(chunk[k]) THEN char_lower(chunk[k]) ELSE <<chunk[k]>>])

C8_Expected(chunks, exceptions, i) ==
    IF C8_IsWord(chunks[i]) /\ ~is_preserved(chunks[i], exceptions)
    THEN IF C8_StartsSentence(chunks, i)
         THEN C8_Capitalized(chunks[i])
         ELSE C8_Lowercased(chunks[i])
    ELSE chunks[i]

\* C8: a recased word chunk is capitalized exactly when it starts a sentence
\* (no word chunk before it, or a sentence-ending punctuation chunk since the
\* previous word chunk) and is lowercased otherwise; a word chunk ending in
\* sentence punctuation does not make the next word capitalized.
C8_CapitalizeNext ==
    (pc = "return" /\ call.fn = "apply_title_no_cap") =>
        LET chunks == re_split_ws(call.title)
        IN  ret = concat([i \in DOMAIN chunks |-> C8_Expected(chunks, call.exceptions, i)])

\* "a: a : a": the word after "a:" is lowercased, the word after ":" capitalized
C8_Witness ==
    /\ pc = "return"
    /\ call.fn = "apply_title_no_cap"
    /\ call.exceptions = {}
    /\ \/ /\ call.title = <<"a", ":", " ", "a">>
          /\ ret = <<"A", ":", " ", "a">>
       \/ /\ call.title = <<"a", " ", ":", " ", "a">>
          /\ ret = <<"A", " ", ":", " ", "A">>


(***************************************************************************)
(* The configuration tables                                                *)
(***************************************************************************)
EntryTypes == {"article", "book", "incollection", "inproceedings", "proceedings",
               "booklet", "manual", "techreport", "mastersthesis", "phdthesis",
               "misc", "unpublished"}

ESSENTIAL_FIELDS == [t \in EntryTypes |->
    CASE t = "article" -> {"author", "title", "journal", "year", "volume", "number", "pages"}
      [] t = "book" -> {"author", "title", "publisher", "year", "address"}
      [] t = "incollection" -> {"author", "title", "booktitle", "publisher", "year", "pages"}
      [] t = "inproceedings" -> {"author", "title", "booktitle", "month", "year", "pages", "address"}
      [] t = "proceedings" -> {"title", "year", "editor", "address"}
      [] t = "booklet" -> {"title", "year"}
      [] t = "manual" -> {"title", "organization", "year", "address"}
      [] t = "techreport" -> {"author", "title", "institution", "year", "number", "address"}
      [] t = "mastersthesis" -> {"author", "title", "school", "year", "address"}
      [] t = "phdthesis" -> {"author", "title", "school", "year", "address"}
      [] t = "misc" -> {"author", "title", "note", "month", "year", "doi"}
      [] t = "unpublished" -> {"author", "title", "note", "month", "year", "doi"}]

\* the rows (key, value) of the MONTHS dictionary
MONTHS == <<
    <<<<"j", "a", "n", "u", "a", "r", "y">>, <<"J", "a", "n">>>>,
    <<<<"f", "e", "b", "r", "u", "a", "r", "y">>, <<"F", "e", "b">>>>,
    <<<<"m", "a", "r", "c", "h">>, <<"M", "a", "r">>>>,
    <<<<"a", "p", "r", "i", "l">>, <<"A", "p", "r">>>>,
    <<<<"m", "a", "y">>, <<"M", "a", "y">>>>,
    <<<<"j", "u", "n", "e">>, <<"J", "u", "n">>>>,
    <<<<"j", "u", "l", "y">>, <<"J", "u", "l">>>>,
    <<<<"a", "u", "g", "u", "s", "t">>, <<"A", "u", "g">>>>,
    <<<<"s", "e", "p", "t", "e", "m", "b", "e", "r">>, <<"S", "e", "p">>>>,
    <<<<"o", "c", "t", "o", "b", "e", "r">>, <<"O", "c", "t">>>>,
    <<<<"n", "o", "v", "e", "m", "b", "e", "r">>, <<"N", "o", "v">>>>,
    <<<<"d", "e", "c", "e", "m", "b", "e", "r">>, <<"D", "e", "c">>>>,
    <<<<"j", "a", "n">>, <<"J", "a", "n">>>>,
    <<<<"f", "e", "b">>, <<"F", "e", "b">>>>,
    <<<<"m", "a", "r">>, <<"M", "a", "r">>>>,
    <<<<"a", "p", "r">>, <<"A", "p", "r">>>>,
    <<<<"j", "u", "n">>, <<"J", "u", "n">>>>,
    <<<<"j", "u", "l">>, <<"J", "u", "l">>>>,
    <<<<"a", "u", "g">>, <<"A", "u", "g">>>>,
    <<<<"s", "e", "p">>, <<"S", "e", "p">>>>,
    <<<<"o", "c", "t">>, <<"O", "c", "t">>>>,
    <<<<"n", "o", "v">>, <<"N", "o", "v">>>>,
    <<<<"d", "e", "c">>, <<"D", "e", "c">>>>
>>

\* the rows (key, value) of num_map in clean_entry
num_map == <<
    <<<<"1">>, <<"J", "a", "n">>>>,
    <<<<"0", "1">>, <<"J", "a", "n">>>>,
    <<<<"2">>, <<"F", "e", "b">>>>,
    <<<<"0", "2">>, <<"F", "e", "b">>>>,
    <<<<"3">>, <<"M", "a", "r">>>>,
    <<<<"0", "3">>, <<"M", "a", "r">>>>,
    <<<<"4">>, <<"A", "p", "r">>>>,
    <<<<"0", "4">>, <<"A", "p", "r">>>>,
    <<<<"5">>, <<"M", "a", "y">>>>,
    <<<<"0", "5">>, <<"M", "a", "y">>>>,
    <<<<"6">>, <<"J", "u", "n">>>>,
    <<<<"0", "6">>, <<"J", "u", "n">>>>,
    <<<<"7">>, <<"J", "u", "l">>>>,
    <<<<"0", "7">>, <<"J", "u", "l">>>>,
    <<<<"8">>, <<"A", "u", "g">>>>,
    <<<<"0", "8">>, <<"A", "u", "g">>>>,
    <<<<"9">>, <<"S", "e", "p">>>>,
    <<<<"0", "9">>, <<"S", "e", "p">>>>,
    <<<<"1", "0">>, <<"O", "c", "t">>>>,
    <<<<"1", "1">>, <<"N", "o", "v">>>>,
    <<<<"1", "2">>, <<"D", "e", "c">>>>
>>

\* key in table, and table[key], for a table of (key, value) rows
table_has(table, key) == \E i \in DOMAIN table : table[i][1] = key
table_at(table, key) == table[CHOOSE i \in DOMAIN table : table[i][1] = key][2]

\* d.get(key, default) of a dictionary
dict_get(d, key, default) == IF key \in DOMAIN d THEN d[key] ELSE default

\* str.lower() of a field name or entry type: the names with an uppercase
\* letter that the inputs use, and their lowercase form
CasedNames ==
    ("ENTRYTYPE" :> "entrytype") @@ ("ID" :> "id") @@ ("Author" :> "author") @@
    ("Editor" :> "editor") @@ ("Abstract" :> "abstract") @@ ("Book" :> "book") @@
    ("Article" :> "article")

name_lower(name) == IF name \in DOMAIN CasedNames THEN CasedNames[name] ELSE name

\* str.capitalize(): the first character uppercased, the rest lowercased
str_capitalize(s) ==
    IF s = <<>> THEN s ELSE char_upper(Head(s)) \o str_lower(Tail(s))

\* the standardized month of clean_entry
normalize_month(raw) ==
    LET m == str_lower(strip(raw))
    IN  IF table_has(MONTHS, m) THEN table_at(MONTHS, m)
        ELSE IF table_has(num_map, m) THEN table_at(num_map, m)
        ELSE str_capitalize(m)

normalize_string(s) ==
    IF s = <<>> THEN <<>> ELSE strip(str_lower(sub_non_alnum_space(s)))


(***************************************************************************)
(* build_title_exception_terms                                             *)
(***************************************************************************)

\* re.split(r'[\s\-]+', term): the pieces between the runs of separators
RECURSIVE re_split_runs(_, _, _)
re_split_runs(s, seps, cur) ==
    IF s = <<>> THEN <<cur>>
    ELSE IF Head(s) \in seps
         THEN IF Tail(s) # <<>> /\ Head(Tail(s)) \in seps
              THEN re_split_runs(Tail(s), seps, cur)
              ELSE <<cur>> \o re_split_runs(Tail(s), seps, <<>>)
         ELSE re_split_runs(Tail(s), seps, Append(cur, Head(s)))

\* what add_term adds to the exception set for one term
add_term(term) ==
    IF term = <<>> THEN {}
    ELSE LET term_lower == str_lower(term)
             parts == re_split_runs(term, Whitespace \cup {"-"}, <<>>)
             kept == {strip(parts[i]) : i \in DOMAIN parts} \ {<<>>}
         IN  ({term_lower, sub_non_lower_alnum(term_lower)}
              \cup {str_lower(part) : part \in kept}
              \cup {sub_non_lower_alnum(str_lower(part)) : part \in kept}) \ {<<>>}

build_title_exception_terms(abbrs) ==
    IF abbrs = None \/ DOMAIN abbrs = {} THEN {}
    ELSE LET terms == dict_get(abbrs, "capitalize", <<>>)
         IN  UNION {add_term(terms[i]) : i \in DOMAIN terms}

(***************************************************************************)
(* clean_entry                                                             *)
(***************************************************************************)

\* d[key] = value of a dictionary
dict_set(d, key, value) ==
    [k \in DOMAIN d \cup {key} |-> IF k = key THEN value ELSE d[k]]

\* required = set(ESSENTIAL_FIELDS.get(entry_type, set()))
required_fields(entry_type) ==
    IF entry_type \in EntryTypes THEN ESSENTIAL_FIELDS[entry_type] ELSE {}

\* variant: author and editor are copied whether required or not
copied_keys_with_either(entry, required) ==
    {key \in DOMAIN entry : name_lower(key) \in required \cup {"author", "editor"}}

\* the keys the for loop copies into `cleaned`
copied_keys(entry, required) ==
    {key \in DOMAIN entry : name_lower(key) \in required}

\* has_either after the for loop
has_either_field(entry, entry_type) ==
    /\ entry_type \in {"book", "proceedings"}
    /\ \E key \in DOMAIN entry : name_lower(key) \in {"author", "editor"}

\* variant: has_either is ignored
missing_fields_always_marker(required, found, entry_type, has_either) ==
    IF entry_type \in {"book", "proceedings"}
    THEN (required \ found) \cup {"author or editor"}
    ELSE required \ found

\* variant: the fields found are not subtracted
missing_fields_all_required(required, found, entry_type, has_either) ==
    IF entry_type \in {"book", "proceedings"}
    THEN IF has_either
         THEN required \ {"author", "editor"}
         ELSE required \cup {"author or editor"}
    ELSE required

\* `missing` of clean_entry
missing_fields(required, found, entry_type, has_either) ==
    IF entry_type \in {"book", "proceedings"}
    THEN IF has_either
         THEN (required \ found) \ {"author", "editor"}
         ELSE (required \ found) \cup {"author or editor"}
    ELSE required \ found

\* every string `missing` can hold, in the order of Python's string comparison
SortedNames ==
    <<"address", "author", "author or editor", "booktitle", "doi", "editor",
      "institution", "journal", "month", "note", "number", "organization",
      "pages", "publisher", "school", "title", "volume", "year">>

\* sorted(missing)
sorted_names(missing) ==
    LET Selected(name) == name \in missing IN SelectSeq(SortedNames, Selected)

\* ', '.join(names)
RECURSIVE join_names(_)
join_names(names) ==
    IF names = <<>> THEN ""
    ELSE IF Len(names) = 1 THEN names[1]
    ELSE names[1] \o ", " \o join_names(Tail(names))

\* the warnings list of clean_entry
entry_warnings(entry_id, missing) ==
    IF missing # {}
    THEN <<"Entry '" \o entry_id \o "' missing: " \o join_names(sorted_names(missing))>>
    ELSE <<>>

\* `if minimal and abbreviations`
abbreviating(minimal, abbrs) == minimal /\ abbrs # None /\ DOMAIN abbrs # {}

Min(S) == CHOOSE x \in S : \A y \in S : x <= y
Max(S) == CHOOSE x \in S : \A y \in S : x >= y

\* variant: the journal test is the substring test of inproceedings
journal_matches_substring(norm_journal, full) == str_contains(norm_journal, normalize_string(full))

\* the test of the journal loop
journal_matches(norm_journal, full) == norm_journal = normalize_string(full)

\* the journal after the loop over journal_abbreviations, which stops at the
\* first match
abbreviate_journal(journal, abbrs) ==
    LET table == dict_get(abbrs, "journal_abbreviations", <<>>)
        hits == {i \in DOMAIN table : journal_matches(normalize_string(journal), table[i][2])}
    IN  IF hits = {} THEN journal ELSE table[Min(hits)][1]

\* the booktitle of an article after the loops over conference_abbreviations:
\* only the inner loop stops at a match, so the last matching key stays
abbreviate_article_booktitle(booktitle, abbrs) ==
    LET table == dict_get(abbrs, "conference_abbreviations", <<>>)
        hits == {i \in DOMAIN table :
                    \E j \in DOMAIN table[i][2] :
                        normalize_string(booktitle) = normalize_string(table[i][2][j])}
    IN  IF hits = {} THEN booktitle ELSE table[Max(hits)][1]

\* the test of the inproceedings loops, for one key and its variants
conference_matches(norm_title, abbr, fulls) ==
    \E j \in DOMAIN fulls :
        \/ str_contains(norm_title, normalize_string(abbr))
        \/ str_contains(norm_title, normalize_string(fulls[j]))

\* the booktitle of an inproceedings entry after the loops
abbreviate_booktitle(booktitle, abbrs) ==
    LET table == dict_get(abbrs, "conference_abbreviations", <<>>)
        hits == {i \in DOMAIN table :
                    conference_matches(normalize_string(booktitle), table[i][1], table[i][2])}
    IN  IF hits = {} THEN booktitle ELSE table[Max(hits)][1]

\* the abbreviation block of clean_entry
abbreviate(cleaned, entry_type, minimal, abbrs) ==
    IF ~abbreviating(minimal, abbrs) THEN cleaned
    ELSE IF entry_type = "article" THEN
        LET c1 == IF dict_get(cleaned, "journal", <<>>) # <<>>
                  THEN dict_set(cleaned, "journal", abbreviate_journal(cleaned["journal"], abbrs))
                  ELSE cleaned
        IN  IF dict_get(c1, "booktitle", <<>>) # <<>>
            THEN dict_set(c1, "booktitle", abbreviate_article_booktitle(c1["booktitle"], abbrs))
            ELSE c1
    ELSE IF entry_type = "inproceedings" THEN
        IF dict_get(cleaned, "booktitle", <<>>) # <<>>
        THEN dict_set(cleaned, "booktitle", abbreviate_booktitle(cleaned["booktitle"], abbrs))
        ELSE cleaned
    ELSE cleaned

\* the month, title and author rewrites of clean_entry
standardize_month(cleaned) ==
    IF "month" \in DOMAIN cleaned
    THEN dict_set(cleaned, "month", normalize_month(cleaned["month"]))
    ELSE cleaned

recase_title(cleaned, entry_type, no_cap, exceptions) ==
    IF no_cap /\ entry_type # "book" /\ "title" \in DOMAIN cleaned
    THEN dict_set(cleaned, "title", apply_title_no_cap(cleaned["title"], exceptions))
    ELSE cleaned

truncate_author_field(cleaned, max_authors) ==
    IF "author" \in DOMAIN cleaned
    THEN dict_set(cleaned, "author", truncate_authors(cleaned["author"], max_authors))
    ELSE cleaned

\* clean_entry: the cleaned record and the warnings
clean_entry(entry, max_authors, minimal, abbrs, no_cap, exceptions) ==
    LET entry_type == name_lower(dict_get(entry, "ENTRYTYPE", ""))
        entry_id == dict_get(entry, "ID", "<UNKNOWN>")
        required == required_fields(entry_type)
        keys == copied_keys(entry, required)
        found == {name_lower(key) : key \in keys}
        has_either == has_either_field(entry, entry_type)
        c0 == [key \in {"ENTRYTYPE", "ID"} \cup keys |->
                 IF key = "ENTRYTYPE" THEN dict_get(entry, "ENTRYTYPE", "misc")
                 ELSE IF key = "ID" THEN entry_id
                 ELSE entry[key]]
        c1 == standardize_month(c0)
        c2 == recase_title(c1, entry_type, no_cap, exceptions)
        c3 == abbreviate(c2, entry_type, minimal, abbrs)
        c4 == truncate_author_field(c3, max_authors)
        missing == missing_fields(required, found, entry_type, has_either)
    IN  [cleaned |-> c4, warnings |-> entry_warnings(entry_id, missing)]


(***************************************************************************)
(* clean_entry applied to one entry.  The entries are those of the         *)
(* scenario record smith2020 (an article with every required field and a   *)
(* month), of every entry type tried, with some required fields left out   *)
(* and some other fields added.                                            *)
(***************************************************************************)
MaxMissing == 2
MaxExtra == 2

\* the value of each field, by its lowercase name
FieldValue ==
    ("author" :> <<"A", " ", "a", "n", "d", " ", "B", " ", "a", "n", "d", " ", "C", " ", "a", "n", "d", " ", "D", " ", "a", "n", "d", " ", "E">>) @@
    ("title" :> <<"a", " ", "S", "T", "U", "D", "Y", " ", "o", "f", " ", "t", "h", "e", " ", "N", "A", "S", "A", " ", "M", "i", "s", "s", "i", "o", "n">>) @@
    ("journal" :> <<"J", ".", " ", "A", "p", "p", "l", "i", "e", "d", " ", "M", "e", "c", "h", ".">>) @@
    ("year" :> <<"2", "0", "2", "0">>) @@
    ("volume" :> <<"4">>) @@
    ("number" :> <<"2">>) @@
    ("pages" :> <<"1", "-", "1", "0">>) @@
    ("month" :> <<"J", "a", "n", "u", "a", "r", "y">>) @@
    ("editor" :> <<"E", " ", "a", "n", "d", " ", "F">>) @@
    ("booktitle" :> <<"P", "r", "o", "c", ".", " ", "I", "C", "M", "L">>) @@
    ("publisher" :> <<"M", "I", "T">>) @@
    ("address" :> <<"O", "s", "l", "o">>) @@
    ("abstract" :> <<"x">>)

ExtraFields == {"author", "editor", "Author", "Editor", "abstract", "month"}

\* the ENTRYTYPE of the entries tried; Absent: the entry has no ENTRYTYPE
TypeChoices == {"article", "Article", "book", "proceedings", "inproceedings", "dataset", Absent}

SubsetsUpTo(S, n) == {T \in SUBSET S : Cardinality(T) <= n}

make_entry(type, id, fields) ==
    [key \in fields \cup (IF id = Absent THEN {} ELSE {"ID"})
                     \cup (IF type = Absent THEN {} ELSE {"ENTRYTYPE"}) |->
        IF key = "ENTRYTYPE" THEN type
        ELSE IF key = "ID" THEN id
        ELSE FieldValue[name_lower(key)]]

EntryChoices ==
    {make_entry(type, "smith2020", (required_fields(name_lower(type)) \ drop) \cup extra) :
        <<type, drop, extra>> \in
            {<<t, d, e>> \in TypeChoices \X SubsetsUpTo(DOMAIN FieldValue, MaxMissing)
                                        \X SubsetsUpTo(ExtraFields, MaxExtra) :
                d \subseteq required_fields(name_lower(t))}}

ScenarioTable ==
    ("capitalize" :> <<<<"N", "A", "S", "A">>>>) @@
    ("journal_abbreviations" :>
        << <<<<"J", "A", "M">>, <<"J", " ", "A", "p", "p", "l", "i", "e", "d", " ", "M", "e", "c", "h">>>> >>) @@
    ("conference_abbreviations" :>
        << <<<<"I", "C", "M", "L">>, <<<<"I", "n", "t", "l", ".", " ", "C", "o", "n", "f", ".", " ", "M", "L">>>>>> >>)

InitEntry ==
    /\ pc = "call"
    /\ \E entry \in EntryChoices, max_authors \in {DEFAULT_MAX_AUTHORS, 3},
          no_cap \in BOOLEAN, abbrs \in {None, ScenarioTable} :
          call = [fn |-> "clean_entry", entry |-> entry, max_authors |-> max_authors,
                  minimal |-> (abbrs # None), abbreviations |-> abbrs, no_cap |-> no_cap,
                  title_exceptions |-> build_title_exception_terms(abbrs)]
    /\ ret = <<>>
    /\ MainIdle

CallCleanEntry ==
    /\ pc = "call"
    /\ call.fn = "clean_entry"
    /\ ret' = clean_entry(call.entry, call.max_authors, call.minimal, call.abbreviations,
                          call.no_cap, call.title_exceptions)
    /\ pc' = "return"
    /\ UNCHANGED call
    /\ MainUnchanged

SpecEntry == InitEntry /\ [][CallCleanEntry]_vars

Returned(fn) == pc = "return" /\ call.fn = fn

\* the entry type, the required set and the lowercase field names of the
\* entry passed to clean_entry
InType == name_lower(dict_get(call.entry, "ENTRYTYPE", ""))
InRequired == IF InType \in EntryTypes THEN ESSENTIAL_FIELDS[InType] ELSE {}
InFields == {name_lower(key) : key \in DOMAIN call.entry \ {"ENTRYTYPE", "ID"}}
OutFields == {name_lower(key) : key \in DOMAIN ret.cleaned \ {"ENTRYTYPE", "ID"}}

\* C1: the field names of the cleaned record, lowercased, are among the
\* required fields of the entry's type, besides ENTRYTYPE and ID.
C1_FieldsSubset ==
    Returned("clean_entry") =>
        \A key \in DOMAIN ret.cleaned :
            key \in {"ENTRYTYPE", "ID"} \/ name_lower(key) \in InRequired

\* fields outside the required set were given and dropped, while a required
\* one was kept
C1_Witness ==
    /\ Returned("clean_entry")
    /\ InType = "book"
    /\ {"editor", "abstract"} \subseteq InFields
    /\ "title" \in OutFields
    /\ OutFields \cap {"editor", "abstract"} = {}

\* the warning text for a set of names, spelled out
C2_Text(id, names) ==
    LET listed == sorted_names(names)
    IN  "Entry '" \o id \o "' missing: " \o
        IF Len(listed) = 1 THEN listed[1]
        ELSE IF Len(listed) = 2 THEN listed[1] \o ", " \o listed[2]
        ELSE join_names(listed)

\* C2: for a type other than book and proceedings there is one warning when
\* a required field is absent from the input and none otherwise; it lists,
\* sorted and comma-joined, exactly the required names absent from the
\* cleaned record; an article lacking only volume gives
\* "Entry 'smith2020' missing: volume".
C2_MissingWarning ==
    (Returned("clean_entry") /\ InType \notin {"book", "proceedings"}) =>
        /\ IF InRequired \ InFields # {}
           THEN ret.warnings = <<C2_Text(dict_get(call.entry, "ID", "<UNKNOWN>"),
                                           InRequired \ OutFields)>>
           ELSE ret.warnings = <<>>
        /\ (InType = "article" /\ InRequired \ InFields = {"volume"}) =>
               ret.warnings = <<"Entry 'smith2020' missing: volume">>

\* an article lacking two required fields, and one lacking none
C2_Witness ==
    /\ Returned("clean_entry")
    /\ InType = "article"
    /\ \/ ret.warnings = <<"Entry 'smith2020' missing: author, volume">>
       \/ InRequired \subseteq InFields /\ ret.warnings = <<>>

\* C3: for a book or proceedings entry the reported missing list holds the
\* marker "author or editor" when the input has neither author nor editor,
\* and none of "author", "editor" and the marker when it has one of them.
C3_AuthorOrEditor ==
    (Returned("clean_entry") /\ InType \in {"book", "proceedings"}) =>
        \E reported \in SUBSET (InRequired \cup {"author or editor"}) :
            /\ ret.warnings = entry_warnings(call.entry["ID"], reported)
            /\ IF InFields \cap {"author", "editor"} = {}
               THEN "author or editor" \in reported
               ELSE reported \cap {"author", "editor", "author or editor"} = {}

\* a book with only an editor and no warning, and one with neither field
C3_Witness ==
    /\ Returned("clean_entry")
    /\ InType = "book"
    /\ \/ InFields \cap {"author", "editor"} = {"editor"} /\ ret.warnings = <<>>
       \/ ret.warnings = <<"Entry 'smith2020' missing: author, author or editor">>

\* the scenario: the article's title is recased with no exception terms
C5_Scenario ==
    /\ Returned("clean_entry")
    /\ InType = "article"
    /\ "title" \in DOMAIN call.entry
    /\ call.entry["title"] = <<"a", " ", "S", "T", "U", "D", "Y", " ", "o", "f", " ", "t", "h", "e", " ", "N", "A", "S", "A", " ", "M", "i", "s", "s", "i", "o", "n">>
    /\ call.no_cap
    /\ call.title_exceptions = {}

\* C5 as claimed: the cleaned title is "A Study of the NASA Mission".
C5_TitleAsClaimed ==
    C5_Scenario => ret.cleaned["title"] = <<"A", " ", "S", "t", "u", "d", "y", " ", "o", "f", " ", "t", "h", "e", " ", "N", "A", "S", "A", " ", "M", "i", "s", "s", "i", "o", "n">>

\* C5 as amended: the cleaned title is "A STUDY of the NASA mission": the
\* first word is capitalized, STUDY and NASA (two or more uppercase letters)
\* are preserved, and Mission is lowercased.
C5_TitleAsCoded ==
    C5_Scenario => ret.cleaned["title"] = <<"A", " ", "S", "T", "U", "D", "Y", " ", "o", "f", " ", "t", "h", "e", " ", "N", "A", "S", "A", " ", "m", "i", "s", "s", "i", "o", "n">>

C5_Witness == C5_Scenario /\ "title" \in DOMAIN ret.cleaned

\* C10: a book or proceedings entry given an author or an editor keeps at
\* least one of the two in the cleaned record.
C10_KeepsAuthorOrEditor ==
    (Returned("clean_entry") /\ InType \in {"book", "proceedings"}
        /\ InFields \cap {"author", "editor"} # {}) =>
        OutFields \cap {"author", "editor"} # {}


(***************************************************************************)
(* clean_entry applied to entries whose journal and booktitle are short    *)
(* names, with tables whose full names differ from them in case,           *)
(* punctuation and surrounding blanks.                                     *)
(***************************************************************************)
MaxNameLen == 3
MaxFullLen == 2

NameChars == {"A", " ", "-"}
FullChars == {"a", " ", "-"}

\* a table with two journals and two conferences around the full name `full`
abbreviation_table(full) ==
    ("journal_abbreviations" :>
        << <<<<"J", "1">>, full>>, <<<<"J", "2">>, <<"a", "a", " ">>>> >>) @@
    ("conference_abbreviations" :>
        << <<<<"C", "1">>, <<full, <<"-", "a">>>>>>, <<<<"A", "A">>, <<<<"a", "a", "a">>>>>> >>)

named_entry(type, name) ==
    [key \in required_fields(type) \cup {"ENTRYTYPE", "ID", "journal", "booktitle"} |->
        IF key = "ENTRYTYPE" THEN type
        ELSE IF key = "ID" THEN "smith2020"
        ELSE IF key \in {"journal", "booktitle"} THEN name
        ELSE FieldValue[key]]

InitAbbr ==
    /\ pc = "call"
    /\ \E type \in {"article", "inproceedings", "book"},
          name \in StringsUpTo(NameChars, MaxNameLen),
          full \in StringsUpTo(FullChars, MaxFullLen),
          mode \in {"on", "not minimal", "no table"} :
          call = [fn |-> "clean_entry", entry |-> named_entry(type, name),
                  max_authors |-> DEFAULT_MAX_AUTHORS,
                  minimal |-> (mode # "not minimal"),
                  abbreviations |-> IF mode = "no table" THEN None ELSE abbreviation_table(full),
                  no_cap |-> FALSE, title_exceptions |-> {}]
    /\ ret = <<>>
    /\ MainIdle

SpecAbbr == InitAbbr /\ [][CallCleanEntry]_vars

\* the normalized form as the claim words it, and with the surrounding
\* blanks trimmed as well
C9_Norm(trimmed, s) ==
    IF trimmed THEN strip(str_lower(sub_non_alnum_space(s)))
    ELSE str_lower(sub_non_alnum_space(s))

C9_On == call.minimal /\ call.abbreviations # None /\ DOMAIN call.abbreviations # {}
C9_Journals == dict_get(call.abbreviations, "journal_abbreviations", <<>>)
C9_Conferences == dict_get(call.abbreviations, "conference_abbreviations", <<>>)

\* the claim, for either normalized form
C9_Holds(trimmed) ==
    Returned("clean_entry") =>
        LET N(s) == C9_Norm(trimmed, s)
            JournalMatch(i) == N(C9_Journals[i][2]) = N(call.entry["journal"])
            ConferenceMatch(i) ==
                \/ str_contains(N(call.entry["booktitle"]), N(C9_Conferences[i][1]))
                \/ \E j \in DOMAIN C9_Conferences[i][2] :
                      str_contains(N(call.entry["booktitle"]), N(C9_Conferences[i][2][j]))
        IN  /\ "journal" \in DOMAIN ret.cleaned =>
                \/ ret.cleaned["journal"] = call.entry["journal"]
                \/ /\ C9_On /\ InType = "article"
                   /\ \E i \in DOMAIN C9_Journals :
                         ret.cleaned["journal"] = C9_Journals[i][1] /\ JournalMatch(i)
            /\ "booktitle" \in DOMAIN ret.cleaned =>
                \/ ret.cleaned["booktitle"] = call.entry["booktitle"]
                \/ /\ C9_On /\ InType = "inproceedings"
                   /\ \E i \in DOMAIN C9_Conferences :
                         ret.cleaned["booktitle"] = C9_Conferences[i][1] /\ ConferenceMatch(i)
            /\ ("journal" \in DOMAIN ret.cleaned
                    /\ (~C9_On \/ \A i \in DOMAIN C9_Journals : ~JournalMatch(i))) =>
                ret.cleaned["journal"] = call.entry["journal"]
            /\ ("booktitle" \in DOMAIN ret.cleaned
                    /\ (~C9_On \/ \A i \in DOMAIN C9_Conferences : ~ConferenceMatch(i))) =>
                ret.cleaned["booktitle"] = call.entry["booktitle"]

MaxEntries == 2

CitationKeys == {"foo", "bar", "baz"}

BibEntries ==
    {make_entry("article", "foo", {"author", "title", "journal", "abstract"}),
     make_entry("book", "bar", {"editor", "title", "year"}),
     make_entry("inproceedings", "baz", {"Author", "booktitle", "month"}),
     make_entry("misc", Absent, {"title"})}

AbbreviationFiles == {<<>>, ScenarioTable}

Init ==
    /\ pc = "start"
    /\ args \in [max_authors : {DEFAULT_MAX_AUTHORS, 1}, minimal : BOOLEAN,
                 no_cap : BOOLEAN, only_cited : BOOLEAN]
    /\ entries \in UNION {[1..n -> BibEntries] : n \in 0..MaxEntries}
    /\ abbreviations = None
    /\ title_exceptions = {}
    /\ used_keys = None
    /\ idx = 0
    /\ cleaned_entries = <<>>
    /\ all_warnings = <<>>
    /\ call = None
    /\ ret = <<>>

\* the input file does not exist: sys.exit(1)
InputNotFound ==
    /\ pc = "start"
    /\ pc' = "exit"
    /\ UNCHANGED <<call, ret, args, entries, abbreviations, title_exceptions,
                   used_keys, idx, cleaned_entries, all_warnings>>

\* the bibliography is read into db.entries
LoadBibliography ==
    /\ pc = "start"
    /\ pc' = "abbreviations"
    /\ UNCHANGED <<call, ret, args, entries, abbreviations, title_exceptions,
                   used_keys, idx, cleaned_entries, all_warnings>>

\* abbreviations.json is read when it exists
LoadAbbreviations ==
    /\ pc = "abbreviations"
    /\ \/ UNCHANGED <<abbreviations, title_exceptions>>
       \/ \E file \in AbbreviationFiles :
             /\ abbreviations' = file
             /\ title_exceptions' = build_title_exception_terms(file)
    /\ pc' = "keys"
    /\ UNCHANGED <<call, ret, args, entries, used_keys, idx, cleaned_entries, all_warnings>>

\* the citation keys are read from manuscript.tex when --only-cited is given
\* and the file exists
ExtractKeys ==
    /\ pc = "keys"
    /\ \/ used_keys' = None
       \/ /\ args.only_cited
          /\ \E keys \in SUBSET CitationKeys : used_keys' = KeySet(keys)
    /\ pc' = "loop"
    /\ UNCHANGED <<call, ret, args, entries, abbreviations, title_exceptions, idx,
                   cleaned_entries, all_warnings>>

\* variant: the key set is ignored
is_filtered_out_never(entry, keys) == FALSE

\* `used_keys is not None and entry_id not in used_keys`
is_filtered_out(entry, keys) ==
    keys # None /\ ("ID" \notin DOMAIN entry \/ entry["ID"] \notin keys.keys)

\* one pass of the for loop over db.entries
ProcessEntry ==
    /\ pc = "loop"
    /\ idx < Len(entries)
    /\ idx' = idx + 1
    /\ IF is_filtered_out(entries[idx + 1], used_keys)
       THEN UNCHANGED <<cleaned_entries, all_warnings>>
       ELSE LET r == clean_entry(entries[idx + 1], args.max_authors, args.minimal,
                                 abbreviations, args.no_cap, title_exceptions)
            IN  /\ cleaned_entries' = Append(cleaned_entries, r.cleaned)
                /\ all_warnings' = all_warnings \o r.warnings
    /\ UNCHANGED <<pc, call, ret, args, entries, abbreviations, title_exceptions, used_keys>>

\* the cleaned entries are written and the warnings printed
WriteOutput ==
    /\ pc = "loop"
    /\ idx = Len(entries)
    /\ pc' = "done"
    /\ UNCHANGED <<call, ret, args, entries, abbreviations, title_exceptions,
                   used_keys, idx, cleaned_entries, all_warnings>>

Next ==
    \/ InputNotFound
    \/ LoadBibliography
    \/ LoadAbbreviations
    \/ ExtractKeys
    \/ ProcessEntry
    \/ WriteOutput

Spec == Init /\ [][Next]_vars

\* the records among the first n that survive the filter, in input order
RECURSIVE C7_Survivors(_)
C7_Survivors(n) ==
    IF n = 0 THEN <<>>
    ELSE IF used_keys = None
            \/ ("ID" \in DOMAIN entries[n] /\ entries[n]["ID"] \in used_keys.keys)
         THEN Append(C7_Survivors(n - 1), entries[n])
         ELSE C7_Survivors(n - 1)

C7_Cleaned(entry) ==
    clean_entry(entry, args.max_authors, args.minimal, abbreviations, args.no_cap,
                title_exceptions)

\* C7: the output list holds, in input order, the cleaned record of each
\* input record that survives the filter, and the warnings are theirs: with
\* a key set, the records whose ID is in it; without one (filtering not
\* requested, or no manuscript) every record.
C7_OutputIsFilteredInput ==
    (pc \in {"loop", "done"}) =>
        LET kept == C7_Survivors(idx)
        IN  /\ cleaned_entries = [i \in DOMAIN kept |-> C7_Cleaned(kept[i]).cleaned]
            /\ all_warnings = concat([i \in DOMAIN kept |-> C7_Cleaned(kept[i]).warnings])
            /\ ~args.only_cited => used_keys = None
            /\ pc = "done" => idx = Len(entries)

\* the run is over, a record was filtered out and another one kept
C7_Witness ==
    /\ pc = "done"
    /\ used_keys # None
    /\ Len(entries) = 2
    /\ Len(cleaned_entries) = 1
    /\ cleaned_entries[1]["ID"] = entries[2]["ID"]
    /\ all_warnings # <<>>

=============================================================================
